---------------------------- MODULE Spec2Model ----------------------------
(***************************************************************************)
(* The modal controller (IndependentModal.svelte) and the Window chrome    *)
(* it wraps (the Svelte component stored in api/connections.ts, lines 36   *)
(* to 79), as state machines over the Svelte runtime's update cycle:       *)
(*   - an assignment to a component variable changes the variable at once  *)
(*     and marks it dirty ($$invalidate);                                  *)
(*   - the reactive statements ($:) and the template are re-evaluated only *)
(*     at the next flush, for the variables that are dirty;                *)
(*   - `await tick()` resumes after that flush, in FIFO (microtask) order; *)
(*   - a block with an out: transition stays in the document, unchanged,   *)
(*     until the transition has ended.                                     *)
(* A caller that uses the component API ($set) and synthetic events        *)
(* (dispatchEvent, click()) runs both synchronously, so an event can reach *)
(* a handler between an assignment and the flush that follows it.          *)
(***************************************************************************)
EXTENDS Integers, Sequences, FiniteSets, TLC

\* The controller instances that can exist (distinct modalId values).
Modals == {"m1", "m2"}

\* ModalCloseAction
Triggers == {"button", "esc", "overlay"}

\* event.key values delivered to the window keydown listener
Keys == {"Escape", "Enter"}

\* Bound: how many times a caller sets isOpen to true on one instance.
MaxOpens == 1

\* Bound: how many close signals a standalone Window emits in a run.
MaxSignals == 2

VARIABLES
    instances,      \* the controllers that have been constructed
    isOpen,         \* export let isOpen
    allowClose,     \* export let allowClose
    closeOn,        \* export let closeOn (the triggers the array includes)
    hasOverlay,     \* export let hasOverlay (passed at construction)
    props,          \* export let modalId, title, size, canScrollBody
    callerIsOpen,   \* the value of isOpen the caller passed last: the
                    \* caller's own flag, which the prop does not write
    closeOnButton,  \* $: closeOnButton, as last computed
    closeOnEsc,     \* $: closeOnEsc, as last computed
    closeOnOverlay, \* $: closeOnOverlay, as last computed
    dirty,          \* what was invalidated since the last flush: "isOpen",
                    \* "policy" (allowClose or closeOn, one mask test)
    dom,            \* what the {#if isOpen} block has put in the document
    pending,        \* dispatchOpenOrClose calls suspended at `await tick()`
    transitions,    \* how often isOpen became true / false since creation
    notified,       \* how many open / close events were dispatched
    last,           \* the click handled last, if no other operation has
                    \* run since
    winProps,       \* a standalone Window: its props and $$slots.title
    winDirty,       \* a standalone Window: props changed since the render
    winDom,         \* a standalone Window: its rendered output
    winSignals      \* a standalone Window: close events dispatched

modalVars == <<instances, isOpen, allowClose, closeOn, hasOverlay,
               props, callerIsOpen,
               closeOnButton, closeOnEsc, closeOnOverlay, dirty, dom,
               pending, transitions, notified>>
winVars == <<winProps, winDirty, winDom, winSignals>>
vars == <<modalVars, last, winVars>>

----------------------------------------------------------------------------
(* Window.svelte                                                           *)

\* title: string | undefined; the text is a sequence of characters
NoTitle == [defined |-> FALSE, text |-> <<>>]
Titles == {NoTitle, [defined |-> TRUE, text |-> <<>>],
           [defined |-> TRUE, text |-> <<"E", "d", "i", "t">>]}

\* JavaScript truthiness of a string | undefined value
Truthy(title) == title.defined /\ title.text # <<>>

\* Mutant: tests the title for being defined instead of truthy.
hasTitleBar_defined(slotsTitle, title, hasCloseButton) ==
    slotsTitle \/ title.defined \/ hasCloseButton

\* {#if $$slots.title || title || hasCloseButton}
hasTitleBar(slotsTitle, title, hasCloseButton) ==
    slotsTitle \/ Truthy(title) \/ hasCloseButton

\* The rendered output of Window for the given props.
WindowRender(p) ==
    [titleBar    |-> hasTitleBar(p.slotsTitle, p.title, p.hasCloseButton),
     titleText   |-> IF hasTitleBar(p.slotsTitle, p.title, p.hasCloseButton)
                     THEN p.title.text ELSE <<>>,
     closeButton |-> hasTitleBar(p.slotsTitle, p.title, p.hasCloseButton)
                     /\ p.hasCloseButton,
     canScrollBody  |-> p.canScrollBody,
     hasBodyPadding |-> p.hasBodyPadding]

WindowProps ==
    [slotsTitle : BOOLEAN, title : Titles, hasCloseButton : BOOLEAN,
     canScrollBody : BOOLEAN, hasBodyPadding : BOOLEAN]

\* The props of Window when the caller passes none.
WindowDefaults ==
    [slotsTitle |-> FALSE, title |-> NoTitle, hasCloseButton |-> TRUE,
     canScrollBody |-> TRUE, hasBodyPadding |-> TRUE]

----------------------------------------------------------------------------
(* IndependentModal.svelte: state after construction                       *)

NoDom == [modal |-> "absent", overlay |-> FALSE,
          closeButton |-> FALSE, titleBar |-> FALSE]

\* The block {#if isOpen} ... {/if} as created for the current values.
\* Window gets a title slot (<div slot="title">) and hasCloseButton.
CreateBlock(overlay, button) ==
    [modal |-> "mounted",
     overlay |-> overlay,
     closeButton |-> hasTitleBar(TRUE, NoTitle, button) /\ button,
     titleBar |-> hasTitleBar(TRUE, NoTitle, button)]

\* The value of `last` after an operation that is not a click.
Other == [op |-> "other", modal |-> "all"]

\* _isOpen ? 'open' : 'close'
EventName(_isOpen) == IF _isOpen THEN "open" ELSE "close"

NoCount == [open |-> 0, close |-> 0]

\* allowClose && closeOn.includes(trigger)
Permitted(allow, list, trigger) == allow /\ trigger \in list

\* modalId, title, size and canScrollBody as the caller leaves them.
DefaultProps ==
    [modalId |-> "undefined", title |-> NoTitle, size |-> "regular",
     canScrollBody |-> TRUE]

\* Construction of the controllers in `live`, the caller passing isOpen
\* (open0), hasOverlay (overlay0) and closeOn (list0); allowClose takes its
\* default.  The reactive statements have run once, so one
\* dispatchOpenOrClose per instance is suspended at `await tick()`.
ModalInit(live, open0, overlay0, list0, order) ==
    /\ instances = live
    /\ isOpen = [m \in Modals |-> m \in live /\ open0[m]]
    /\ allowClose = [m \in Modals |-> TRUE]
    /\ closeOn = list0
    /\ hasOverlay = overlay0
    /\ props = [m \in Modals |-> DefaultProps]
    /\ callerIsOpen = [m \in Modals |-> m \in live /\ open0[m]]
    /\ closeOnButton = [m \in Modals |-> Permitted(TRUE, list0[m], "button")]
    /\ closeOnEsc = [m \in Modals |-> Permitted(TRUE, list0[m], "esc")]
    /\ closeOnOverlay = [m \in Modals |-> Permitted(TRUE, list0[m], "overlay")]
    /\ dirty = [m \in Modals |-> {}]
    /\ dom = [m \in Modals |->
                IF m \in live /\ open0[m]
                THEN CreateBlock(overlay0[m], Permitted(TRUE, list0[m], "button"))
                ELSE NoDom]
    /\ pending = [i \in 1..Len(order) |->
                    [modal |-> order[i], isOpen |-> open0[order[i]]]]
    /\ transitions = [m \in Modals |-> NoCount]
    /\ notified = [m \in Modals |-> NoCount]

WindowInit(p) ==
    /\ winProps = p
    /\ winDirty = FALSE
    /\ winDom = WindowRender(p)
    /\ winSignals = 0

\* The enumerations of a finite set as sequences without repetition.
Enumerations(S) ==
    {s \in [1..Cardinality(S) -> S] : \A x \in S : \E i \in DOMAIN s : s[i] = x}

\* closeOn = ['button'], the default
DefaultCloseOn == [m \in Modals |-> {"button"}]

\* One controller, created by a caller that passes isOpen and hasOverlay
\* or leaves them.
Init ==
    /\ \E open0 \in [Modals -> BOOLEAN], overlay0 \in BOOLEAN :
          ModalInit({"m1"}, open0, [m \in Modals |-> overlay0],
                    DefaultCloseOn, <<"m1">>)
    /\ last = [op |-> "create", modal |-> "m1"]
    /\ WindowInit(WindowDefaults)


----------------------------------------------------------------------------
(* IndependentModal.svelte: the script block                               *)

\* Mutant: close() flips isOpen instead of clearing it.
close_toggle(io, m) == [io EXCEPT ![m] = ~io[m]]

\* function close() { isOpen = false; }   (io: isOpen before the call)
close(io, m) == [io EXCEPT ![m] = FALSE]

\* Mutant: the Escape handler does not test isOpen and flips it.
handleKeydown_toggle(io, m, key) ==
    IF key = "Escape" /\ closeOnEsc[m] THEN [io EXCEPT ![m] = ~io[m]] ELSE io

\* function handleKeydown(event)
handleKeydown(io, m, key) ==
    IF key = "Escape" /\ io[m] /\ closeOnEsc[m] THEN close(io, m) ELSE io

\* function handleOverlayClick()
handleOverlayClick(io, m) ==
    IF closeOnOverlay[m] THEN close(io, m) ELSE io

\* An assignment to isOpen ($$invalidate): the value changes at once; the
\* variable is marked dirty only if the value differs.
AssignIsOpen(new) ==
    /\ isOpen' = new
    /\ dirty' = [m \in Modals |->
                    IF new[m] # isOpen[m] THEN dirty[m] \cup {"isOpen"}
                    ELSE dirty[m]]
    /\ transitions' = [m \in Modals |->
                    IF new[m] # isOpen[m]
                    THEN [transitions[m] EXCEPT ![EventName(new[m])] = @ + 1]
                    ELSE transitions[m]]

\* The call dispatchOpenOrClose(isOpen) of the reactive statement, suspended
\* at `await tick()` with its argument.
dispatchOpenOrClose(m) == [modal |-> m, isOpen |-> isOpen[m]]

\* $: closeOnButton / closeOnEsc / closeOnOverlay: re-run at a flush when
\* allowClose or closeOn is dirty.
Recomputed(m, trigger, old) ==
    IF "policy" \in dirty[m]
    THEN Permitted(allowClose[m], closeOn[m], trigger)
    ELSE old

\* Mutant: the closed modal is hidden, its block is kept as it is.
Patch_keep(m, button) ==
    IF isOpen[m] THEN CreateBlock(hasOverlay[m], button) ELSE dom[m]

\* The template at a flush: {#if isOpen} creates the block, or updates it
\* and cancels its outro; otherwise an existing block starts its out:
\* transitions and is no longer updated.  hasOverlay does not change after
\* construction, so {#if hasOverlay} never toggles inside a live block.
Patch(m, button) ==
    IF isOpen[m] THEN CreateBlock(hasOverlay[m], button)
    ELSE IF dom[m].modal = "absent" THEN dom[m]
         ELSE [dom[m] EXCEPT !.modal = "outro"]

----------------------------------------------------------------------------
(* The caller: component props set through the component API               *)

CallerSetIsOpen(m, v) ==
    /\ m \in instances
    /\ v => transitions[m].open < MaxOpens
    /\ AssignIsOpen([isOpen EXCEPT ![m] = v])
    /\ callerIsOpen' = [callerIsOpen EXCEPT ![m] = v]
    /\ last' = Other
    /\ UNCHANGED <<instances, props, allowClose, closeOn, hasOverlay, closeOnButton,
                   closeOnEsc, closeOnOverlay, dom, pending, notified, winVars>>

CallerSetAllowClose(m, v) ==
    /\ m \in instances
    /\ allowClose' = [allowClose EXCEPT ![m] = v]
    /\ dirty' = [dirty EXCEPT ![m] =
                    IF v # allowClose[m] THEN @ \cup {"policy"} ELSE @]
    /\ last' = Other
    /\ UNCHANGED <<instances, props, callerIsOpen, isOpen, closeOn, hasOverlay, closeOnButton,
                   closeOnEsc, closeOnOverlay, dom, pending, transitions,
                   notified, winVars>>

\* closeOn is an array: an assigned array always counts as changed.
CallerSetCloseOn(m, list) ==
    /\ m \in instances
    /\ closeOn' = [closeOn EXCEPT ![m] = list]
    /\ dirty' = [dirty EXCEPT ![m] = @ \cup {"policy"}]
    /\ last' = Other
    /\ UNCHANGED <<instances, props, callerIsOpen, isOpen, allowClose, hasOverlay, closeOnButton,
                   closeOnEsc, closeOnOverlay, dom, pending, transitions,
                   notified, winVars>>

----------------------------------------------------------------------------
(* Events                                                                  *)

\* <svelte:window on:keydown={handleKeydown} />: every constructed
\* controller has its listener on the window, open or not.
Keydown(key) ==
    /\ AssignIsOpen([m \in Modals |->
            IF m \in instances THEN handleKeydown(isOpen, m, key)[m]
            ELSE isOpen[m]])
    /\ last' = Other
    /\ UNCHANGED <<instances, props, callerIsOpen, allowClose, closeOn, hasOverlay, closeOnButton,
                   closeOnEsc, closeOnOverlay, dom, pending, notified, winVars>>

\* <div class="overlay" on:click={handleOverlayClick}>: the node can be
\* clicked while it is in the document.
OverlayClick(m) ==
    /\ m \in instances
    /\ dom[m].overlay
    /\ AssignIsOpen(handleOverlayClick(isOpen, m))
    /\ last' = [op |-> "overlayClick", modal |-> m]
    /\ UNCHANGED <<instances, props, callerIsOpen, allowClose, closeOn, hasOverlay, closeOnButton,
                   closeOnEsc, closeOnOverlay, dom, pending, notified, winVars>>

\* Mutant: isOpen is bound two-way, so close() also writes the caller's
\* flag.
CloseButtonClick_bound(m) ==
    /\ m \in instances
    /\ dom[m].closeButton
    /\ AssignIsOpen(close(isOpen, m))
    /\ callerIsOpen' = close(isOpen, m)
    /\ last' = [op |-> "buttonClick", modal |-> m]
    /\ UNCHANGED <<instances, props, allowClose, closeOn, hasOverlay,
                   closeOnButton, closeOnEsc, closeOnOverlay, dom, pending,
                   notified, winVars>>

\* The close button of the wrapped Window: handleCloseButtonClick
\* dispatches 'close', and <Window on:close={close}> calls close().
CloseButtonClick(m) ==
    /\ m \in instances
    /\ dom[m].closeButton
    /\ AssignIsOpen(close(isOpen, m))
    /\ last' = [op |-> "buttonClick", modal |-> m]
    /\ UNCHANGED <<instances, props, callerIsOpen, allowClose, closeOn, hasOverlay, closeOnButton,
                   closeOnEsc, closeOnOverlay, dom, pending, notified, winVars>>

----------------------------------------------------------------------------
(* The update cycle                                                        *)

\* flush(): every dirty component runs its reactive statements for the
\* dirty variables, then patches its template; dirty is cleared.
Flush ==
    /\ \E m \in instances : dirty[m] # {}
    /\ closeOnButton' = [m \in Modals |-> Recomputed(m, "button", closeOnButton[m])]
    /\ closeOnEsc' = [m \in Modals |-> Recomputed(m, "esc", closeOnEsc[m])]
    /\ closeOnOverlay' = [m \in Modals |-> Recomputed(m, "overlay", closeOnOverlay[m])]
    /\ \E s \in Enumerations({dispatchOpenOrClose(m) :
                                m \in {x \in instances : "isOpen" \in dirty[x]}}) :
          pending' = pending \o s
    /\ dom' = [m \in Modals |->
                 IF dirty[m] # {} THEN Patch(m, closeOnButton'[m]) ELSE dom[m]]
    /\ dirty' = [m \in Modals |-> {}]
    /\ last' = Other
    /\ UNCHANGED <<instances, props, callerIsOpen, isOpen, allowClose, closeOn, hasOverlay,
                   transitions, notified, winVars>>

\* Mutant: the resumed call names the event after the value isOpen has
\* now, not after its argument.
Dispatch_current ==
    /\ pending # <<>>
    /\ notified' = [notified EXCEPT
                      ![Head(pending).modal]
                         [EventName(isOpen[Head(pending).modal])] = @ + 1]
    /\ pending' = Tail(pending)
    /\ last' = Other
    /\ UNCHANGED <<instances, props, callerIsOpen, isOpen, allowClose, closeOn, hasOverlay,
                   closeOnButton, closeOnEsc, closeOnOverlay, dirty, dom,
                   transitions, winVars>>

\* The oldest suspended dispatchOpenOrClose resumes:
\* dispatch(_isOpen ? 'open' : 'close')
Dispatch ==
    /\ pending # <<>>
    /\ notified' = [notified EXCEPT
                      ![Head(pending).modal][EventName(Head(pending).isOpen)] = @ + 1]
    /\ pending' = Tail(pending)
    /\ last' = Other
    /\ UNCHANGED <<instances, props, callerIsOpen, isOpen, allowClose, closeOn, hasOverlay,
                   closeOnButton, closeOnEsc, closeOnOverlay, dirty, dom,
                   transitions, winVars>>

\* The out: transitions (150 ms) have ended: the block is detached.
OutroEnd(m) ==
    /\ dom[m].modal = "outro"
    /\ dom' = [dom EXCEPT ![m] = NoDom]
    /\ last' = Other
    /\ UNCHANGED <<instances, props, callerIsOpen, isOpen, allowClose, closeOn, hasOverlay,
                   closeOnButton, closeOnEsc, closeOnOverlay, dirty, pending,
                   transitions, notified, winVars>>

Next ==
    \/ \E m \in Modals, v \in BOOLEAN : CallerSetIsOpen(m, v)
    \/ \E m \in Modals, v \in BOOLEAN : CallerSetAllowClose(m, v)
    \/ \E m \in Modals, list \in SUBSET Triggers : CallerSetCloseOn(m, list)
    \/ \E key \in Keys : Keydown(key)
    \/ \E m \in Modals : OverlayClick(m)
    \/ \E m \in Modals : CloseButtonClick(m)
    \/ Flush
    \/ Dispatch
    \/ \E m \in Modals : OutroEnd(m)

Spec == Init /\ [][Next]_vars

\* A suspended dispatchOpenOrClose is a queued microtask: it resumes.
SpecFair == Spec /\ WF_vars(Dispatch)

----------------------------------------------------------------------------
(* Two controllers open side by side.  Each caller passes isOpen and       *)
(* closeOn at construction and afterwards only drives isOpen.              *)

\* The closeOn arrays the two callers choose from.
ListsTwo == {{"button"}, {"esc", "overlay"}}

InitTwo ==
    /\ \E open0 \in [Modals -> BOOLEAN], list0 \in [Modals -> ListsTwo],
          order \in Enumerations(Modals) :
          ModalInit(Modals, open0, [m \in Modals |-> TRUE], list0, order)
    /\ last = [op |-> "create", modal |-> "all"]
    /\ WindowInit(WindowDefaults)

NextTwo ==
    \/ \E m \in Modals, v \in BOOLEAN : CallerSetIsOpen(m, v)
    \/ \E key \in Keys : Keydown(key)
    \/ \E m \in Modals : OverlayClick(m)
    \/ \E m \in Modals : CloseButtonClick(m)
    \/ Flush
    \/ Dispatch
    \/ \E m \in Modals : OutroEnd(m)

SpecTwo == InitTwo /\ [][NextTwo]_vars

----------------------------------------------------------------------------
(* A Window used on its own, with any props and with or without a title    *)
(* slot.                                                                   *)

\* The caller sets props; $$slots is fixed at construction.
WindowSet(p) ==
    /\ p.slotsTitle = winProps.slotsTitle
    /\ winProps' = p
    /\ winDirty' = (winDirty \/ p # winProps)
    /\ UNCHANGED <<modalVars, last, winDom, winSignals>>

\* The flush that follows: the template is evaluated for the props.
WindowFlush ==
    /\ winDirty
    /\ winDom' = WindowRender(winProps)
    /\ winDirty' = FALSE
    /\ UNCHANGED <<modalVars, last, winProps, winSignals>>

\* function handleCloseButtonClick() { dispatch('close'); }
handleCloseButtonClick ==
    /\ winDom.closeButton
    /\ winSignals < MaxSignals
    /\ winSignals' = winSignals + 1
    /\ UNCHANGED <<modalVars, last, winProps, winDirty, winDom>>

InitWindow ==
    /\ ModalInit({}, [m \in Modals |-> FALSE], [m \in Modals |-> TRUE],
                 DefaultCloseOn, <<>>)
    /\ last = Other
    /\ \E p \in WindowProps : WindowInit(p)

NextWindow ==
    \/ \E p \in WindowProps : WindowSet(p)
    \/ WindowFlush
    \/ handleCloseButtonClick

SpecWindow == InitWindow /\ [][NextWindow]_vars

----------------------------------------------------------------------------
(* Properties                                                              *)

\* The step is a dismissal request that reaches controller m.
Request(m, trigger) ==
    CASE trigger = "button"  -> CloseButtonClick(m)
      [] trigger = "esc"     -> m \in instances /\ Keydown("Escape")
      [] trigger = "overlay" -> OverlayClick(m)

\* The notifications of kind k that controller m has dispatched, has
\* suspended at `await tick()`, or will schedule at the next flush.
Accounted(m, k) ==
    notified[m][k]
    + Cardinality({i \in DOMAIN pending :
                     pending[i].modal = m /\ EventName(pending[i].isOpen) = k})
    + (IF "isOpen" \in dirty[m] /\ EventName(isOpen[m]) = k THEN 1 ELSE 0)

\* C1: while allowClose is false no dismissal trigger closes an open modal,
\* whatever closeOn contains: an open modal whose allowClose is false is
\* closed only by the caller setting isOpen.
C1_NoTriggerClosesWhenDisallowed ==
    [][\A m \in Modals :
         (~allowClose[m] /\ isOpen[m] /\ ~isOpen'[m])
            => CallerSetIsOpen(m, FALSE)]_vars

\* C2: a dismissal request from a trigger that closeOn does not contain
\* leaves an open modal open and schedules no notification.
C2_TriggerNotInCloseOnIsNoOp ==
    [][\A m \in Modals, t \in Triggers :
         (isOpen[m] /\ t \notin closeOn[m] /\ Request(m, t))
            => (isOpen'[m] /\ dirty'[m] = dirty[m] /\ pending' = pending
                /\ notified' = notified)]_vars

\* C3: every transition of isOpen yields its notification, open for a
\* change to true and close for a change to false: no transition is left
\* without a notification that is dispatched, suspended or due at the next
\* flush, also when isOpen changes more than once before the flush.
C3_EveryTransitionNotified ==
    \A m \in Modals, k \in {"open", "close"} :
        Accounted(m, k) >= transitions[m][k]

\* C4: a dismissal request that reaches a closed modal leaves isOpen false
\* and causes no further notification (nothing is invalidated, scheduled or
\* dispatched), also while the closing block is still in the document.
C4_CloseIsIdempotent ==
    [][\A m \in Modals, t \in Triggers :
         (~isOpen[m] /\ Request(m, t))
            => (~isOpen'[m] /\ dirty'[m] = dirty[m] /\ pending' = pending
                /\ notified' = notified
                /\ transitions'[m] = transitions[m])]_vars

\* C4 witness: an overlay click was handled while the modal was closed and
\* its block was still playing the out: transition; nothing was invalidated.
C4_Witness ==
    \E m \in Modals :
        /\ last = [op |-> "overlayClick", modal |-> m]
        /\ ~isOpen[m] /\ dom[m].modal = "outro" /\ dirty[m] = {}
        /\ transitions[m].close > 0

\* C5: a dismissal request from a trigger t on an open modal with
\* allowClose true and t in closeOn sets isOpen to false in the handler,
\* which makes its close notification due at the next flush; a keydown
\* other than Escape changes nothing of the controller.
C5_PermittedRequestCloses ==
    [][/\ \A m \in Modals, t \in Triggers :
            (isOpen[m] /\ allowClose[m] /\ t \in closeOn[m] /\ Request(m, t))
               => (~isOpen'[m] /\ "isOpen" \in dirty'[m])
       /\ \A key \in Keys \ {"Escape"} :
            Keydown(key) => UNCHANGED modalVars]_vars

\* C6: of two controllers that are open at the same time, a dismissal event
\* that closes one leaves the other one open and invalidates nothing of it.
C6_IndependentlyClosable ==
    [][\A a \in Modals, b \in Modals, t \in Triggers :
         (a # b /\ isOpen[a] /\ isOpen[b] /\ Request(a, t) /\ ~isOpen'[a])
            => (isOpen'[b] /\ dirty'[b] = dirty[b])]_vars

\* C7 as stated: whenever isOpen is false the modal subtree is not in the
\* document, and it is in the document only while isOpen is true.
C7_ClosedMeansAbsent ==
    \A m \in Modals : dom[m].modal # "absent" <=> isOpen[m]

\* C7 amended: once the flush that follows a change of isOpen has run, the
\* subtree is mounted exactly when isOpen is true; a closed modal's subtree
\* is then absent or only still playing its out: transition.
C7_FlushedViewFollowsIsOpen ==
    \A m \in Modals :
        "isOpen" \notin dirty[m] => (dom[m].modal = "mounted" <=> isOpen[m])

\* C7 witness: a modal that was created open and then closed, after the
\* flush and the end of its out: transition: nothing of it is left in the
\* document.
C7_Witness ==
    \E m \in Modals :
        /\ ~isOpen[m] /\ transitions[m] = [open |-> 0, close |-> 1]
        /\ dirty[m] = {} /\ dom[m] = NoDom

\* C8: the controller never opens itself: every change of isOpen from
\* false to true is the caller setting isOpen.
C8_NeverOpensItself ==
    [][\A m \in Modals :
         (~isOpen[m] /\ isOpen'[m]) => CallerSetIsOpen(m, TRUE)]_vars

\* C8 witness: a modal the caller had opened is closed and flushed, with
\* the esc trigger permitted, and a click on the close button of its
\* closing block has just been handled: it is still closed.
C8_Witness ==
    \E m \in Modals :
        /\ last = [op |-> "buttonClick", modal |-> m]
        /\ ~isOpen[m] /\ closeOnEsc[m] /\ dirty[m] = {}
        /\ dom[m].modal = "outro"
        /\ transitions[m].open > 0

\* C9: the rendered Window has a title bar if and only if it has a
\* non-empty title, a title slot or the close button.
C9_TitleBarIffContent ==
    ~winDirty =>
        (winDom.titleBar <=>
            \/ (winProps.title.defined /\ Len(winProps.title.text) > 0)
            \/ winProps.slotsTitle
            \/ winProps.hasCloseButton)

\* C9 witness: a Window that had a close button (a close signal was
\* emitted) is rendered with an empty-string title, no title slot and no
\* close button: it has no title bar.
C9_Witness ==
    /\ ~winDirty /\ winSignals > 0
    /\ winProps.title = [defined |-> TRUE, text |-> <<>>]
    /\ ~winProps.slotsTitle /\ ~winProps.hasCloseButton
    /\ ~winDom.titleBar

\* C10: the notifications dispatched so far never outnumber the changes of
\* isOpen since the controller was created.
C10_NotificationsPerTransition ==
    \A m \in Modals :
        notified[m].open + notified[m].close
            <= transitions[m].open + transitions[m].close


\* The notifications dispatched so far, of all controllers and both kinds.
Emitted ==
    LET n[S \in SUBSET Modals] ==
          IF S = {} THEN 0
          ELSE LET m == CHOOSE x \in S : TRUE
               IN notified[m].open + notified[m].close + n[S \ {m}]
    IN n[Modals]

\* The notifications scheduled so far: dispatched or suspended.
Scheduled == Emitted + Len(pending)

\* The step schedules and dispatches nothing, and no observed change of
\* isOpen is dropped.
C11_Idle ==
    /\ pending' = pending /\ notified' = notified
    /\ \A m \in Modals : "isOpen" \in dirty[m] => "isOpen" \in dirty'[m]

\* The step schedules one notification for each controller whose isOpen
\* is observed changed, with the value isOpen has then, behind those
\* already suspended, and dispatches nothing.
C11_Schedule ==
    /\ \E s \in Enumerations({[modal |-> m, isOpen |-> isOpen[m]] :
                                m \in {x \in Modals : "isOpen" \in dirty[x]}}) :
          pending' = pending \o s
    /\ notified' = notified
    /\ \A m \in Modals : "isOpen" \notin dirty'[m]

\* The step dispatches the oldest suspended notification, under the name
\* of the value it captured, and leaves the others suspended in order.
C11_Emit ==
    /\ pending # <<>>
    /\ pending' = Tail(pending)
    /\ notified' = [notified EXCEPT
                      ![pending[1].modal]
                         [IF pending[1].isOpen THEN "open" ELSE "close"] = @ + 1]

\* C11: one notification is scheduled per observed change of isOpen, with
\* the value captured then; a scheduled notification is never cancelled,
\* notifications are dispatched in the order they were scheduled, and each
\* one is eventually dispatched.
C11_ScheduledOnceInOrderAndEmitted ==
    /\ [][C11_Idle \/ C11_Schedule \/ C11_Emit]_vars
    /\ \A n \in 1..(2 * MaxOpens + 2) : (Scheduled >= n) ~> (Emitted >= n)

\* C11 witness: two notifications were scheduled while isOpen changed
\* again; the first has been dispatched and the second, which captured a
\* value isOpen no longer has, is still suspended.
C11_Witness ==
    /\ Emitted >= 1
    /\ Len(pending) = 1
    /\ pending[1].isOpen # isOpen[pending[1].modal]
    /\ transitions[pending[1].modal].open + transitions[pending[1].modal].close >= 2


\* C12: when a notification is dispatched the document agrees with it: the
\* modal block is mounted at an `open` and is not mounted (closing or
\* absent) at a `close`, whatever isOpen changes, flushes and resumptions
\* came before.
C12_ViewConsistentAtEmission ==
    [][\A m \in Modals :
         /\ notified'[m].open > notified[m].open => dom[m].modal = "mounted"
         /\ notified'[m].close > notified[m].close => dom[m].modal # "mounted"]_vars

\* C13: whenever a dismissal trigger is handled, the three derived
\* permissions equal allowClose and membership in closeOn for the values
\* the caller has set, and a block in the document shows the close button
\* exactly when closeOnButton holds.
C13_PermissionsCurrentWhenUsed ==
    [][\A m \in Modals, t \in Triggers :
         Request(m, t) =>
            /\ closeOnButton[m] = Permitted(allowClose[m], closeOn[m], "button")
            /\ closeOnEsc[m] = Permitted(allowClose[m], closeOn[m], "esc")
            /\ closeOnOverlay[m] = Permitted(allowClose[m], closeOn[m], "overlay")
            /\ dom[m].modal # "absent"
                  => (dom[m].closeButton <=> closeOnButton[m])]_vars

\* C15: an open modal with no title, no title slot content from its caller
\* and closeOnButton false, once flushed, shows no title bar.
C15_NoEmptyTitleBar ==
    \A m \in Modals :
        (isOpen[m] /\ dirty[m] = {} /\ dom[m].modal = "mounted"
           /\ ~closeOnButton[m])
            => ~dom[m].titleBar

============================================================================
